---- MODULE Spec2Model ----
(***************************************************************************)
(* wenyan-mcp: the CallToolRequestSchema handler of src/index.ts and the    *)
(* three WeChat helpers of src/wechat-api.ts (getAccessToken,               *)
(* uploadPermanentMaterial, publishImageMessageToDraft).                    *)
(*                                                                         *)
(* One invocation of the handler is a coroutine: it runs until its next    *)
(* await and is resumed by the answer of the outbound call it waits for.   *)
(* pc[i] is the await invocation i is suspended at, and every action is    *)
(* the code that runs between two awaits.                                  *)
(*                                                                         *)
(* Values.  An optional JSON field or argument is a sequence of length 0   *)
(* (absent) or 1 (present).  A piece of text is a tagged pair:             *)
(*   <<"lit", s>>   a literal string          <<"tok", n>>  an access token *)
(*   <<"mid", n>>   a material's media_id     <<"draft", n>> a draft's id   *)
(*   <<"path", p>>  an image path, p its characters                        *)
(* where n is the name the platform gave: a number for a token, the token  *)
(* of the request and a number for a material or a draft.  A message or a  *)
(* text block is the sequence of the pieces the template literal           *)
(* concatenates.                                                           *)
(***************************************************************************)
EXTENDS Naturals, Sequences, FiniteSets

\* ------------------------------------------------------------------ bounds
\* Invocation slots of the concurrent specification.
NumInv == 2
\* Longest images argument.
MaxImages == 2

Invs == 1..NumInv

\* ------------------------------------------------------------------ values
Lit(s) == <<"lit", s>>
Tok(n) == <<"tok", n>>
Mid(n) == <<"mid", n>>
DraftId(n) == <<"draft", n>>
PathText(p) == <<"path", p>>

Absent == <<>>
Some(v) == <<v>>
IsPresent(o) == Len(o) = 1

\* JavaScript truthiness of an optional string field: undefined and "" are falsy.
TruthyText(o) == IsPresent(o) /\ o[1] # Lit("")
\* JavaScript truthiness of an optional number field: undefined and 0 are falsy.
TruthyNum(o) == IsPresent(o) /\ o[1] # 0

\* `${n}`: a number interpolated into a template literal is its decimal text.
NumText(n) ==
    CASE n = 0 -> Lit("0")
      [] n = 200 -> Lit("200")
      [] n = 500 -> Lit("500")
      [] n = 40001 -> Lit("40001")
      [] n = 45009 -> Lit("45009")
      [] OTHER -> Lit("?")

\* ------------------------------------------------------------ image paths
HttpPrefix == <<"h", "t", "t", "p", ":", "/", "/">>
HttpsPrefix == <<"h", "t", "t", "p", "s", ":", "/", "/">>

RemotePath == <<"h", "t", "t", "p", "s", ":", "/", "/", "x", "/", "a">>
LocalPath == <<"/", "l", "/", "b">>

\* String.prototype.startsWith
StartsWith(s, prefix) ==
    /\ Len(s) >= Len(prefix)
    /\ SubSeq(s, 1, Len(prefix)) = prefix

\* Mutant: the scheme is tested without its "://".
Mutant_IsRemote(filePath) ==
    StartsWith(filePath, <<"h", "t", "t", "p">>)

IsRemote(filePath) ==
    StartsWith(filePath, HttpPrefix) \/ StartsWith(filePath, HttpsPrefix)

Paths == {RemotePath, LocalPath}

\* Strings at the edges of the classification: the empty string, the bare
\* prefixes, an http URL, a prefix cut short, the scheme in upper case,
\* another scheme, and the prefix after a first character.
EmptyPath == <<>>
HttpPath == <<"h", "t", "t", "p", ":", "/", "/", "x">>
CutPath == <<"h", "t", "t", "p", ":", "/", "x">>
HttpsCutPath == <<"h", "t", "t", "p", "s", ":", "/">>
UpperPath == <<"H", "T", "T", "P", ":", "/", "/", "x">>
FtpPath == <<"f", "t", "p", ":", "/", "/", "x">>
InnerPath == <<"x", "h", "t", "t", "p", ":", "/", "/">>
EdgePaths ==
    {EmptyPath, HttpPrefix, HttpsPrefix, HttpPath, CutPath, HttpsCutPath,
     UpperPath, FtpPath, InnerPath}

RECURSIVE SeqsUpTo(_, _)
SeqsUpTo(S, n) ==
    IF n = 0 THEN {<<>>}
    ELSE LET shorter == SeqsUpTo(S, n - 1)
         IN  shorter \cup {Append(s, x) : s \in {t \in shorter : Len(t) = n - 1}, x \in S}

\* Lists of the two ordinary paths up to the bound, and each edge string as
\* the only image.
ImageLists == SeqsUpTo(Paths, MaxImages) \cup {<<p>> : p \in EdgePaths}


\* --------------------------------------------------------------- messages
\* The fixed texts of the thrown errors and of the success blocks (the
\* Chinese literals of the source, named here in ASCII).
MsgConfig == Lit("WECHAT_APP_ID or WECHAT_APP_SECRET not set")
MsgValidation == Lit("title, content and images are required, images not empty")
MsgUnknownTool == Lit("Unknown tool")
MsgTokenFailed == Lit("get access_token failed: ")
MsgTokenMissing == Lit("get access_token failed: no access_token in response")
MsgDownloadFailed == Lit("Failed to download file from URL: ")
MsgUploadFailed == Lit("upload permanent material failed: ")
MsgUploadMissing == Lit("upload permanent material failed: no media_id in response")
MsgDraftFailed == Lit("publish image message failed: ")
MsgDraftMissing == Lit("publish image message failed: no media_id in response")
MsgImagePublished == Lit("image message published to draft box. Media ID: ")
MsgSpace == Lit(" ")

\* What a call returns to its caller: a value, or a thrown Error's message.
Return(v) == [threw |-> FALSE, value |-> v, message |-> <<>>]
Throw(msg) == [threw |-> TRUE, value |-> Lit(""), message |-> msg]

\* -------------------------------------------------------------- responses
\* What an awaited outbound call settles with.  kind "threw": the promise
\* rejected (no connection, unreadable file, a body that is no JSON) with
\* the error text `text`; kind "http": a response with its status line, its
\* raw body text and the fields of its JSON body.
NoData == [errcode |-> Absent, errmsg |-> Absent, access_token |-> Absent, media_id |-> Absent]
Pending == [kind |-> "pending", ok |-> FALSE, status |-> 0, body |-> FALSE,
            text |-> Lit(""), data |-> NoData]
Threw(t) == [kind |-> "threw", ok |-> FALSE, status |-> 0, body |-> FALSE,
             text |-> t, data |-> NoData]
Http(ok, hasBody, text, data) ==
    [kind |-> "http", ok |-> ok, status |-> IF ok THEN 200 ELSE 500,
     body |-> hasBody, text |-> text, data |-> data]
\* A settled promise of a collaborator that is no HTTP call (fileFromPath,
\* getGzhContent, publishToDraft); data holds what it resolved with.
Resolved(data) == [kind |-> "resolved", ok |-> TRUE, status |-> 0, body |-> TRUE,
                   text |-> Lit(""), data |-> data]

FetchFailed == Threw(Lit("fetch failed"))
ReadFailed == Threw(Lit("ENOENT"))
BodyText == Lit("raw response body")

TokenErrcodes == {Absent, Some(0), Some(40001)}
TokenErrmsgs == {Absent, Some(Lit("invalid credential"))}
ApiErrcodes == {Absent, Some(0), Some(45009)}
ApiErrmsgs == {Absent, Some(Lit("reach max api daily quota limit"))}

\* ------------------------------------------------------- wechat-api.ts
\* `data.errmsg || data.errcode` inside a template literal.
ErrText(data) ==
    IF TruthyText(data.errmsg) THEN data.errmsg[1] ELSE NumText(data.errcode[1])

\* Mutant: a module-level cache answers with the first token ever issued.
Mutant_cachedAccessToken(resp) ==
    IF resp.kind = "threw" THEN Throw(<<resp.text>>)
    ELSE IF TruthyNum(resp.data.errcode)
         THEN Throw(<<MsgTokenFailed, ErrText(resp.data)>>)
    ELSE IF ~TruthyText(resp.data.access_token) THEN Throw(<<MsgTokenMissing>>)
    ELSE Return(Tok(1))

\* Mutant: errcode is not looked at.
Mutant_getAccessToken(resp) ==
    IF resp.kind = "threw" THEN Throw(<<resp.text>>)
    ELSE IF ~TruthyText(resp.data.access_token) THEN Throw(<<MsgTokenMissing>>)
    ELSE Return(resp.data.access_token[1])

\* getAccessToken, from the settled fetch to its return or throw.
getAccessToken(resp) ==
    IF resp.kind = "threw" THEN Throw(<<resp.text>>)
    ELSE IF TruthyNum(resp.data.errcode)
         THEN Throw(<<MsgTokenFailed, ErrText(resp.data)>>)
    ELSE IF ~TruthyText(resp.data.access_token) THEN Throw(<<MsgTokenMissing>>)
    ELSE Return(resp.data.access_token[1])

\* Mutant: a download is taken as good on its status alone.
Mutant_downloadStatusOnly(filePath, resp) ==
    IF resp.kind = "threw" THEN Throw(<<resp.text>>)
    ELSE IF ~resp.ok THEN Throw(<<MsgDownloadFailed, PathText(filePath)>>)
    ELSE Return(PathText(filePath))

\* Mutant: the message of a failed download leaves the URL out.
Mutant_downloadFile(filePath, resp) ==
    IF resp.kind = "threw" THEN Throw(<<resp.text>>)
    ELSE IF ~resp.ok \/ ~resp.body THEN Throw(<<MsgDownloadFailed>>)
    ELSE Return(PathText(filePath))

\* uploadPermanentMaterial, the remote branch from the settled download to
\* the form it is about to post.
downloadFile(filePath, resp) ==
    IF resp.kind = "threw" THEN Throw(<<resp.text>>)
    ELSE IF ~resp.ok \/ ~resp.body THEN Throw(<<MsgDownloadFailed, PathText(filePath)>>)
    ELSE Return(PathText(filePath))

\* uploadPermanentMaterial, the local branch: fileFromPath resolves or rejects.
readLocalFile(filePath, resp) ==
    IF resp.kind = "threw" THEN Throw(<<resp.text>>)
    ELSE Return(PathText(filePath))

\* Mutant: the errcode of the body is looked at before the HTTP status.
Mutant_uploadPermanentMaterial(resp) ==
    IF resp.kind = "threw" THEN Throw(<<resp.text>>)
    ELSE IF TruthyNum(resp.data.errcode)
         THEN Throw(<<MsgUploadFailed, ErrText(resp.data)>>)
    ELSE IF ~resp.ok
         THEN Throw(<<MsgUploadFailed, NumText(resp.status), MsgSpace, resp.text>>)
    ELSE IF ~TruthyText(resp.data.media_id) THEN Throw(<<MsgUploadMissing>>)
    ELSE Return(resp.data.media_id[1])

\* uploadPermanentMaterial, from the settled POST to its return or throw.
uploadPermanentMaterial(resp) ==
    IF resp.kind = "threw" THEN Throw(<<resp.text>>)
    ELSE IF ~resp.ok
         THEN Throw(<<MsgUploadFailed, NumText(resp.status), MsgSpace, resp.text>>)
    ELSE IF TruthyNum(resp.data.errcode)
         THEN Throw(<<MsgUploadFailed, ErrText(resp.data)>>)
    ELSE IF ~TruthyText(resp.data.media_id) THEN Throw(<<MsgUploadMissing>>)
    ELSE Return(resp.data.media_id[1])

\* publishImageMessageToDraft: the request body.
requestBody(title, content, ids) ==
    [article_type |-> "newspic",
     title |-> title,
     content |-> content,
     image_list |-> [k \in 1..Len(ids) |-> [image_media_id |-> ids[k]]],
     need_open_comment |-> 0,
     only_fans_can_comment |-> 0]

\* publishImageMessageToDraft, from the settled POST to its return or throw.
publishImageMessageToDraft(resp) ==
    IF resp.kind = "threw" THEN Throw(<<resp.text>>)
    ELSE IF TruthyNum(resp.data.errcode)
         THEN Throw(<<MsgDraftFailed, ErrText(resp.data)>>)
    ELSE IF ~TruthyText(resp.data.media_id) THEN Throw(<<MsgDraftMissing>>)
    ELSE Return(resp.data.media_id[1])


\* ------------------------------------------------------------------ state
VARIABLES
    env,            \* process.env: WECHAT_APP_ID and WECHAT_APP_SECRET
    request,        \* request[i].params: name and arguments of invocation i
    pc,             \* the await invocation i is suspended at
    accessToken,    \* the handler's local accessToken
    imageMediaIds,  \* the handler's local accumulator imageMediaIds
    imageIdx,       \* position of the for...of loop over images
    result,         \* what the protocol caller got back
    calls,          \* history: the outbound calls of invocation i, in order
    platform        \* the WeChat platform: tokens issued, materials, drafts

vars == <<env, request, pc, accessToken, imageMediaIds, imageIdx, result, calls, platform>>

\* One outbound call: its kind, the access_token in its URL, what it sends.
Call(kind, token, arg) == [kind |-> kind, token |-> token, arg |-> arg, resp |-> Pending]
Settle(cs, resp) == [cs EXCEPT ![Len(cs)].resp = resp]

\* The calls that leave the process over the network.
NetworkKinds == {"token", "download", "upload", "draft"}

NoResult == [status |-> "pending", content |-> <<>>, message |-> <<>>]
\* return { content: [{ type: "text", text }] }
TextBlock(text) == [type |-> "text", text |-> text]
Success(blocks) == [status |-> "success", content |-> blocks, message |-> <<>>]
\* a thrown Error reaches the caller as one protocol error with its message
Failure(msg) == [status |-> "error", content |-> <<>>, message |-> msg]

\* ------------------------------------------------- index.ts: arguments
\* String(request.params.arguments?.x || "")
StringArg(o) == IF TruthyText(o) THEN o[1] ELSE Lit("")
\* request.params.arguments?.images as string[] || []
ImagesArg(o) == IF IsPresent(o) THEN o[1] ELSE <<>>

Title(i) == StringArg(request[i].arguments.title)
Content(i) == StringArg(request[i].arguments.content)
Images(i) == ImagesArg(request[i].arguments.images)

\* Mutant: && for ||.
Mutant_ConfigMissing(e) == ~TruthyText(e.WECHAT_APP_ID) /\ ~TruthyText(e.WECHAT_APP_SECRET)

\* if (!appId || !appSecret)
ConfigMissing(e) == ~TruthyText(e.WECHAT_APP_ID) \/ ~TruthyText(e.WECHAT_APP_SECRET)
\* Mutant: the length of images is not looked at.
Mutant_ArgsInvalid(title, content, images) == title = Lit("") \/ content = Lit("")

\* if (!title || !content || images.length === 0)
ArgsInvalid(title, content, images) ==
    title = Lit("") \/ content = Lit("") \/ Len(images) = 0

\* Mutant: the two guards in the other order.
Mutant_checkImageMessage(e, title, content, images) ==
    IF title = Lit("") \/ content = Lit("") \/ Len(images) = 0
    THEN Throw(<<MsgValidation>>)
    ELSE IF ~TruthyText(e.WECHAT_APP_ID) \/ ~TruthyText(e.WECHAT_APP_SECRET)
    THEN Throw(<<MsgConfig>>)
    ELSE Return(Lit("ok"))

\* publish_image_message up to its first await: the two guards, in the
\* order of the code.
checkImageMessage(e, title, content, images) ==
    IF ConfigMissing(e) THEN Throw(<<MsgConfig>>)
    ELSE IF ArgsInvalid(title, content, images) THEN Throw(<<MsgValidation>>)
    ELSE Return(Lit("ok"))


\* ------------------------------------------------- index.ts: the handler
\* Mutant: the locals are module-level variables, one set for all calls.
Mutant_Frame(i) == 1

\* The activation frame that holds the locals of invocation i: the handler
\* is an async arrow function, so every call has a frame of its own.
Frame(i) == i

\* Mutant: unshift instead of push.
Mutant_pushMediaId(ids, mediaId) == <<mediaId>> \o ids

\* imageMediaIds.push(mediaId)
pushMediaId(ids, mediaId) == Append(ids, mediaId)

\* Mutant: a rejected upload breaks out of the loop and the handler goes
\* on to the draft with the ids it has.
Mutant_breakAfterUpload(out, k, n) ==
    IF out.threw THEN "draft" ELSE IF k < n THEN "next" ELSE "draft"

\* Mutant: a rejected upload is skipped when another image follows.
Mutant_skipAfterUpload(out, k, n) ==
    IF k < n THEN "next" ELSE IF out.threw THEN "throw" ELSE "draft"

\* Mutant: the loop swallows a rejected upload and goes on.
Mutant_loopAfterUpload(out, k, n) == IF k < n THEN "next" ELSE "draft"

\* The for...of loop after the awaited upload of image k of n settled: a
\* rejection leaves the loop and the handler, otherwise the next image or,
\* after the last one, the draft.
loopAfterUpload(out, k, n) ==
    IF out.threw THEN "throw" ELSE IF k < n THEN "next" ELSE "draft"

\* Mutant: the block names the mediaId of the loop, an image's.
Mutant_imageMessageText(mediaId, ids) == <<MsgImagePublished, ids[Len(ids)]>>

\* The text of the success block of publish_image_message.
imageMessageText(mediaId, ids) == <<MsgImagePublished, mediaId>>

\* Mutant: the error of a failed request is reported with the URL of the
\* request, whose query holds the secret or the access token.
Mutant_rethrow(i, out) ==
    LET c == calls[i][Len(calls[i])]
    IN  Failure(out.message \o
                (IF c.kind = "token" THEN <<c.arg.secret>>
                 ELSE IF IsPresent(c.token) THEN <<c.token[1]>>
                 ELSE <<>>))

\* The handler has no try / catch: the error an awaited helper threw in
\* invocation i is the error of the invocation, message unchanged.
rethrow(i, out) == Failure(out.message)

\* uploadPermanentMaterial up to its first await: the source is fetched
\* when the path is a URL and read from disk otherwise.
beginUpload(cs, filePath) ==
    IF IsRemote(filePath)
    THEN [calls |-> Append(cs, Call("download", Absent, PathText(filePath))),
          pc |-> "download"]
    ELSE [calls |-> Append(cs, Call("readFile", Absent, PathText(filePath))),
          pc |-> "read"]

\* ----------------------------------------------------- the environment
\* The platform names what it stores under the token of the request: the
\* k-th material (draft) stored with token t gets the id <<t, k>>, so that
\* every id is fresh and no id depends on the order in which requests of
\* different tokens arrive.  publishToDraft obtains its own token.
StoredWith(S, token) == Cardinality({m \in S : m.token = token})
FreshMid(call) == Mid(<<call.token, StoredWith(platform.materials, call.token) + 1>>)
FreshDraftId(call) == DraftId(<<call.token, StoredWith(platform.drafts, call.token) + 1>>)

\* The answers an endpoint may give.  With every = TRUE, every combination
\* of the fields the code reads; with every = FALSE, one answer for each
\* branch the code takes on it.
TokenResponses(every) ==
    IF ~every
    THEN {FetchFailed,
          Http(TRUE, TRUE, BodyText,
               [NoData EXCEPT !.errcode = Some(40001),
                              !.errmsg = Some(Lit("invalid credential"))]),
          Http(TRUE, TRUE, BodyText,
               [NoData EXCEPT !.access_token = Some(Tok(platform.tokens + 1))])}
    ELSE
    {FetchFailed} \cup
    {Http(TRUE, TRUE, BodyText,
          [errcode |-> c, errmsg |-> m, access_token |-> t, media_id |-> Absent]) :
        c \in TokenErrcodes, m \in TokenErrmsgs,
        t \in {Absent, Some(Tok(platform.tokens + 1))}}

DownloadResponses(every) ==
    IF ~every
    THEN {Http(FALSE, TRUE, BodyText, NoData), Http(TRUE, TRUE, BodyText, NoData)}
    ELSE
    {FetchFailed, Http(FALSE, TRUE, BodyText, NoData),
     Http(TRUE, FALSE, BodyText, NoData), Http(TRUE, TRUE, BodyText, NoData)}

ReadResponses == {ReadFailed, Resolved(NoData)}

UploadResponses(every, call) ==
    IF ~every
    THEN {Http(FALSE, TRUE, BodyText, NoData),
          Http(TRUE, TRUE, BodyText,
               [NoData EXCEPT !.errcode = Some(45009)]),
          Http(TRUE, TRUE, BodyText,
               [NoData EXCEPT !.media_id =
                   Some(FreshMid(call))])}
    ELSE
    {FetchFailed} \cup
    {Http(ok, TRUE, BodyText,
          [errcode |-> c, errmsg |-> m, access_token |-> Absent, media_id |-> d]) :
        ok \in BOOLEAN, c \in ApiErrcodes, m \in ApiErrmsgs,
        d \in {Absent, Some(Lit("")), Some(FreshMid(call))}}

DraftResponses(every, call) ==
    IF ~every
    THEN {Http(TRUE, TRUE, BodyText,
               [NoData EXCEPT !.errcode = Some(45009)]),
          Http(TRUE, TRUE, BodyText,
               [NoData EXCEPT !.media_id =
                   Some(FreshDraftId(call))])}
    ELSE
    {FetchFailed} \cup
    {Http(ok, TRUE, BodyText,
          [errcode |-> c, errmsg |-> m, access_token |-> Absent, media_id |-> d]) :
        ok \in BOOLEAN, c \in ApiErrcodes, m \in ApiErrmsgs,
        d \in {Absent, Some(FreshDraftId(call))}}

\* The platform keeps what it names in an answer that reports success: a
\* token it issued, a material or a draft it stored.  An answer with a
\* non-success status or a non-zero errcode reports that nothing was
\* stored, whatever else its body holds.
Accepted(resp) ==
    /\ resp.kind = "http"
    /\ resp.ok
    /\ ~TruthyNum(resp.data.errcode)

PlatformAfter(kind, call, resp) ==
    IF kind = "token" /\ IsPresent(resp.data.access_token)
    THEN [platform EXCEPT !.tokens = @ + 1]
    ELSE IF kind = "upload" /\ Accepted(resp) /\ TruthyText(resp.data.media_id)
    THEN [platform EXCEPT !.materials =
             @ \cup {[media_id |-> resp.data.media_id[1], token |-> call.token,
                      file |-> call.arg]}]
    ELSE IF kind = "draft" /\ Accepted(resp) /\ TruthyText(resp.data.media_id)
    THEN [platform EXCEPT !.drafts =
             @ \cup {[media_id |-> resp.data.media_id[1], token |-> call.token,
                      body |-> call.arg]}]
    ELSE platform

\* --------------------------------------------------------------- actions
\* The dispatch of the handler: the if / else-if chain over request.params.name
\* whose fall-through is the throw of "Unknown tool".  The fall-through of a
\* chain that ends in a plain else would be its last branch.
Mutant_route(name) ==
    IF name = "publish_article" THEN "publish_article"
    ELSE IF name = "list_themes" THEN "list_themes"
    ELSE "publish_image_message"

route(name) ==
    IF name = "publish_article" THEN "publish_article"
    ELSE IF name = "list_themes" THEN "list_themes"
    ELSE IF name = "publish_image_message" THEN "publish_image_message"
    ELSE "unknown"

\* Mutant: an invocation that failed is put back at its start.
Mutant_Finish(i, res, cs) ==
    /\ pc' = [pc EXCEPT ![i] = IF res.status = "error" THEN "received" ELSE "done"]
    /\ result' = [result EXCEPT ![i] = res]
    /\ calls' = [calls EXCEPT ![i] = cs]

\* The handler returns its result or throws: the invocation is over.
Finish(i, res, cs) ==
    /\ pc' = [pc EXCEPT ![i] = "done"]
    /\ result' = [result EXCEPT ![i] = res]
    /\ calls' = [calls EXCEPT ![i] = cs]

\* publish_image_message from the dispatch to the await of the token.
PublishImageMessage(i) ==
    /\ pc[i] = "received"
    /\ route(request[i].name) = "publish_image_message"
    /\ LET chk == checkImageMessage(env, Title(i), Content(i), Images(i))
       IN  IF chk.threw
           THEN Finish(i, Failure(chk.message), calls[i])
           ELSE /\ pc' = [pc EXCEPT ![i] = "token"]
                /\ calls' = [calls EXCEPT ![i] =
                       Append(@, Call("token", Absent,
                                      [appid |-> env.WECHAT_APP_ID[1],
                                       secret |-> env.WECHAT_APP_SECRET[1]]))]
                /\ UNCHANGED result
    /\ UNCHANGED <<env, request, accessToken, imageMediaIds, imageIdx, platform>>

\* The token request settles: getAccessToken returns or throws, and the
\* handler enters the loop with the first image.
TokenResponse(i, every) ==
    /\ pc[i] = "token"
    /\ \E resp \in TokenResponses(every) :
         LET out == getAccessToken(resp)
             cs == Settle(calls[i], resp)
         IN  /\ platform' = PlatformAfter("token", cs[Len(cs)], resp)
             /\ IF out.threw
                THEN /\ Finish(i, rethrow(i, out), cs)
                     /\ UNCHANGED <<accessToken, imageMediaIds, imageIdx>>
                ELSE LET b == beginUpload(cs, Images(i)[1])
                     IN  /\ accessToken' = [accessToken EXCEPT ![Frame(i)] = out.value]
                         /\ imageMediaIds' = [imageMediaIds EXCEPT ![Frame(i)] = <<>>]
                         /\ imageIdx' = [imageIdx EXCEPT ![Frame(i)] = 1]
                         /\ pc' = [pc EXCEPT ![i] = b.pc]
                         /\ calls' = [calls EXCEPT ![i] = b.calls]
                         /\ UNCHANGED result
    /\ UNCHANGED <<env, request>>

\* The form is posted to the material endpoint with the token in the URL.
PostMaterial(i, cs, file) ==
    /\ pc' = [pc EXCEPT ![i] = "upload"]
    /\ calls' = [calls EXCEPT ![i] =
           Append(cs, Call("upload", Some(accessToken[Frame(i)]), file))]
    /\ UNCHANGED result

\* The download of a remote image settles.
DownloadResponse(i, every) ==
    /\ pc[i] = "download"
    /\ \E resp \in DownloadResponses(every) :
         LET filePath == Images(i)[imageIdx[Frame(i)]]
             out == downloadFile(filePath, resp)
             cs == Settle(calls[i], resp)
         IN  IF out.threw
             THEN Finish(i, rethrow(i, out), cs)
             ELSE PostMaterial(i, cs, out.value)
    /\ UNCHANGED <<env, request, accessToken, imageMediaIds, imageIdx, platform>>

\* fileFromPath of a local image settles.
ReadResponse(i) ==
    /\ pc[i] = "read"
    /\ \E resp \in ReadResponses :
         LET filePath == Images(i)[imageIdx[Frame(i)]]
             out == readLocalFile(filePath, resp)
             cs == Settle(calls[i], resp)
         IN  IF out.threw
             THEN Finish(i, rethrow(i, out), cs)
             ELSE PostMaterial(i, cs, out.value)
    /\ UNCHANGED <<env, request, accessToken, imageMediaIds, imageIdx, platform>>

\* The material POST settles: the media_id is pushed and the loop goes on
\* with the next image, or the draft is submitted after the last one.
UploadResponse(i, every) ==
    /\ pc[i] = "upload"
    /\ \E resp \in UploadResponses(every, calls[i][Len(calls[i])]) :
         LET out == uploadPermanentMaterial(resp)
             cs == Settle(calls[i], resp)
             k == imageIdx[Frame(i)]
             step == loopAfterUpload(out, k, Len(Images(i)))
             ids == IF out.threw THEN imageMediaIds[Frame(i)]
                    ELSE pushMediaId(imageMediaIds[Frame(i)], out.value)
         IN  /\ platform' = PlatformAfter("upload", cs[Len(cs)], resp)
             /\ CASE step = "throw" ->
                       /\ Finish(i, rethrow(i, out), cs)
                       /\ UNCHANGED <<imageMediaIds, imageIdx>>
                  [] step = "next" ->
                       LET b == beginUpload(cs, Images(i)[k + 1])
                       IN  /\ imageMediaIds' = [imageMediaIds EXCEPT ![Frame(i)] = ids]
                           /\ imageIdx' = [imageIdx EXCEPT ![Frame(i)] = k + 1]
                           /\ pc' = [pc EXCEPT ![i] = b.pc]
                           /\ calls' = [calls EXCEPT ![i] = b.calls]
                           /\ UNCHANGED result
                  [] step = "draft" ->
                       /\ imageMediaIds' = [imageMediaIds EXCEPT ![Frame(i)] = ids]
                       /\ pc' = [pc EXCEPT ![i] = "draft"]
                       /\ calls' = [calls EXCEPT ![i] =
                              Append(cs, Call("draft", Some(accessToken[Frame(i)]),
                                              requestBody(Title(i), Content(i), ids)))]
                       /\ UNCHANGED <<result, imageIdx>>
    /\ UNCHANGED <<env, request, accessToken>>

\* The draft POST settles: publishImageMessageToDraft returns or throws and
\* the handler returns its one text block.
DraftResponse(i, every) ==
    /\ pc[i] = "draft"
    /\ \E resp \in DraftResponses(every, calls[i][Len(calls[i])]) :
         LET out == publishImageMessageToDraft(resp)
             cs == Settle(calls[i], resp)
         IN  /\ platform' = PlatformAfter("draft", cs[Len(cs)], resp)
             /\ IF out.threw
                THEN Finish(i, rethrow(i, out), cs)
                ELSE Finish(i, Success(<<TextBlock(
                         imageMessageText(out.value, imageMediaIds[Frame(i)]))>>), cs)
    /\ UNCHANGED <<env, request, accessToken, imageMediaIds, imageIdx>>


\* ------------------------------------------- publish_article, list_themes
MsgArticlePublished == Lit("Your article was successfully published. The media ID is ")
MsgFullStop == Lit(".")
MsgDefaultTitle == Lit("this is title")
MsgUndefined == Lit("undefined")

\* The catalog `themes` of @wenyan-md/core.
Themes == <<[id |-> "default", name |-> "Default", description |-> "d1"],
            [id |-> "lapis", name |-> "Lapis", description |-> "d2"]>>

\* x ?? d: only undefined is replaced.
OrElse(o, d) == IF IsPresent(o) THEN o[1] ELSE d

FormatResponses(every) ==
    {Threw(Lit("getGzhContent failed"))} \cup
    {Resolved([title |-> t, cover |-> c, content |-> Lit("<html>")]) :
        t \in {Absent, Some(Lit("front matter title"))},
        c \in {Absent, Some(Lit("cover.png"))}}

PublishResponses(call) ==
    {Threw(Lit("publishToDraft failed")),
     Resolved([media_id |-> Absent]),
     Resolved([media_id |-> Some(FreshDraftId(call))])}

\* publish_article from the dispatch to the await of getGzhContent.
PublishArticle(i) ==
    /\ pc[i] = "received"
    /\ route(request[i].name) = "publish_article"
    /\ pc' = [pc EXCEPT ![i] = "format"]
    /\ calls' = [calls EXCEPT ![i] =
           Append(@, Call("getGzhContent", Absent,
                          [content |-> StringArg(request[i].arguments.content),
                           themeId |-> StringArg(request[i].arguments.theme_id),
                           hlThemeId |-> "solarized-light",
                           isMacStyle |-> TRUE,
                           isAddFootnote |-> TRUE]))]
    /\ UNCHANGED <<env, request, accessToken, imageMediaIds, imageIdx, result, platform>>

\* getGzhContent settles and publishToDraft is called.
FormatResponse(i, every) ==
    /\ pc[i] = "format"
    /\ \E resp \in FormatResponses(every) :
         LET cs == Settle(calls[i], resp)
         IN  IF resp.kind = "threw"
             THEN Finish(i, Failure(<<resp.text>>), cs)
             ELSE /\ pc' = [pc EXCEPT ![i] = "publish"]
                  /\ calls' = [calls EXCEPT ![i] =
                         Append(cs, Call("publishToDraft", Absent,
                                         [title |-> OrElse(resp.data.title, MsgDefaultTitle),
                                          content |-> resp.data.content,
                                          cover |-> OrElse(resp.data.cover, Lit(""))]))]
                  /\ UNCHANGED result
    /\ UNCHANGED <<env, request, accessToken, imageMediaIds, imageIdx, platform>>

\* publishToDraft settles and the handler returns its one text block.
PublishResponse(i) ==
    /\ pc[i] = "publish"
    /\ \E resp \in PublishResponses(calls[i][Len(calls[i])]) :
         LET cs == Settle(calls[i], resp)
         IN  IF resp.kind = "threw"
             THEN /\ Finish(i, Failure(<<resp.text>>), cs)
                  /\ UNCHANGED platform
             ELSE /\ Finish(i, Success(<<TextBlock(<<MsgArticlePublished,
                             OrElse(resp.data.media_id, MsgUndefined), MsgFullStop>>)>>), cs)
                  /\ platform' =
                        IF IsPresent(resp.data.media_id)
                        THEN [platform EXCEPT !.drafts =
                                 @ \cup {[media_id |-> resp.data.media_id[1],
                                          token |-> cs[Len(cs)].token,
                                          body |-> cs[Len(cs)].arg]}]
                        ELSE platform
    /\ UNCHANGED <<env, request, accessToken, imageMediaIds, imageIdx>>

\* list_themes: one text block per theme of the catalog, no await.
ListThemes(i) ==
    /\ pc[i] = "received"
    /\ route(request[i].name) = "list_themes"
    /\ Finish(i, Success([k \in 1..Len(Themes) |-> TextBlock(<<<<"json", Themes[k]>>>>)]),
              calls[i])
    /\ UNCHANGED <<env, request, accessToken, imageMediaIds, imageIdx, platform>>

ToolNames == {"publish_article", "list_themes", "publish_image_message"}

\* No branch of the dispatch matches: throw new Error("Unknown tool").
UnknownTool(i) ==
    /\ pc[i] = "received"
    /\ route(request[i].name) = "unknown"
    /\ Finish(i, Failure(<<MsgUnknownTool>>), calls[i])
    /\ UNCHANGED <<env, request, accessToken, imageMediaIds, imageIdx, platform>>

\* ---------------------------------------------------------------- inputs
EnvValues == {Absent, Some(Lit("")), Some(Lit("wx-app"))}
SecretValues == {Absent, Some(Lit("")), Some(Lit("app-secret"))}
Envs == [WECHAT_APP_ID : EnvValues, WECHAT_APP_SECRET : SecretValues]

TitleArgs == {Absent, Some(Lit("")), Some(Lit("a title"))}
ContentArgs == {Absent, Some(Lit("")), Some(Lit("some text"))}
ImagesArgs == {Absent} \cup {Some(l) : l \in ImageLists}

Arguments(t, c, im, th) == [title |-> t, content |-> c, images |-> im, theme_id |-> th]

ImageMessageRequests ==
    {[name |-> "publish_image_message", arguments |-> Arguments(t, c, im, Absent)] :
        t \in TitleArgs, c \in ContentArgs, im \in ImagesArgs}
ArticleRequests ==
    {[name |-> "publish_article", arguments |-> Arguments(Absent, c, Absent, th)] :
        c \in ContentArgs, th \in {Absent, Some(Lit("lapis"))}}
OtherRequests ==
    {[name |-> "list_themes", arguments |-> Arguments(Absent, Absent, Absent, Absent)],
     [name |-> "delete_draft", arguments |-> Arguments(Absent, Absent, Absent, Absent)],
     [name |-> "publish_image", arguments |->
         Arguments(Some(Lit("a title")), Some(Lit("some text")),
                   Some(<<RemotePath>>), Some(Lit("lapis")))],
     [name |-> "", arguments |->
         Arguments(Absent, Some(Lit("some text")), Absent, Absent)]}
Requests == ImageMessageRequests \cup ArticleRequests \cup OtherRequests

NoRequest == [name |-> "", arguments |-> Arguments(Absent, Absent, Absent, Absent)]

\* The requests of the concurrent specification: image messages with an
\* empty list, with one image and with the longest list.
FullList(n) == [k \in 1..n |-> IF k % 2 = 1 THEN LocalPath ELSE RemotePath]
ConcRequests ==
    {[name |-> "publish_image_message",
      arguments |-> Arguments(Some(Lit("a title")), Some(Lit("some text")),
                              Some(FullList(n)), Absent)] : n \in {0, 1, MaxImages}}
ConcEnvs ==
    {[WECHAT_APP_ID |-> a, WECHAT_APP_SECRET |-> Some(Lit("app-secret"))] :
        a \in {Absent, Some(Lit("wx-app"))}}

\* -------------------------------------------------------- specifications
InitLocals ==
    /\ accessToken = [i \in Invs |-> Lit("")]
    /\ imageMediaIds = [i \in Invs |-> <<>>]
    /\ imageIdx = [i \in Invs |-> 0]
    /\ result = [i \in Invs |-> NoResult]
    /\ calls = [i \in Invs |-> <<>>]
    /\ platform = [tokens |-> 0, materials |-> {}, drafts |-> {}]

\* One invocation, of any request, under any environment.
Init ==
    /\ env \in Envs
    /\ \E r \in Requests : request = [i \in Invs |-> IF i = 1 THEN r ELSE NoRequest]
    /\ pc = [i \in Invs |-> IF i = 1 THEN "received" ELSE "absent"]
    /\ InitLocals

\* NumInv invocations in flight at once.
InitConc ==
    /\ env \in ConcEnvs
    /\ request \in [Invs -> ConcRequests]
    /\ pc = [i \in Invs |-> "received"]
    /\ InitLocals

ImageMessageStep(i, every) ==
    \/ PublishImageMessage(i)
    \/ TokenResponse(i, every)
    \/ DownloadResponse(i, every)
    \/ ReadResponse(i)
    \/ UploadResponse(i, every)
    \/ DraftResponse(i, every)

OtherToolStep(i, every) ==
    \/ PublishArticle(i)
    \/ FormatResponse(i, every)
    \/ PublishResponse(i)
    \/ ListThemes(i)
    \/ UnknownTool(i)

\* One invocation of any tool against every answer of the platform.
Next == \E i \in Invs : ImageMessageStep(i, TRUE) \/ OtherToolStep(i, TRUE)
\* Interleaved publish_image_message invocations against one answer per
\* branch.
NextConc == \E i \in Invs : ImageMessageStep(i, FALSE)

Spec == Init /\ [][Next]_vars
SpecConc == InitConc /\ [][NextConc]_vars

\* Every outbound call is eventually answered or rejected, and the event
\* loop then resumes the handler that awaits it: a step that can be taken
\* is eventually taken.
FairSpec == Init /\ [][Next]_vars /\ WF_vars(Next)


\* ============================================================ properties
\* Reading the history of invocation i.
IsImageMessage(i) == request[i].name = "publish_image_message"
Settled(c) == c.resp.kind # "pending"
CallsOfKind(i, kind) == SelectSeq(calls[i], LAMBDA c : c.kind = kind)
NetworkCalls(i) == SelectSeq(calls[i], LAMBDA c : c.kind \in NetworkKinds)
Parts(msg) == {msg[k] : k \in 1..Len(msg)}

\* The calls of one uploadPermanentMaterial: it starts with the download
\* or the read of its source and goes on with the POST.
StartKinds == {"download", "readFile"}
UploadKinds == StartKinds \cup {"upload"}
\* The position in images of the upload that call j of invocation i is part of.
ImageOf(i, j) == Cardinality({m \in 1..j : calls[i][m].kind \in StartKinds})
\* What the helper that awaited call c made of its answer.
OutcomeOf(i, j) ==
    LET c == calls[i][j]
    IN  CASE c.kind = "token" -> getAccessToken(c.resp)
          [] c.kind = "download" -> downloadFile(Images(i)[ImageOf(i, j)], c.resp)
          [] c.kind = "readFile" -> readLocalFile(Images(i)[ImageOf(i, j)], c.resp)
          [] c.kind = "upload" -> uploadPermanentMaterial(c.resp)
          [] c.kind = "draft" -> publishImageMessageToDraft(c.resp)
          [] OTHER -> Return(Lit(""))
\* Call j of invocation i belongs to the upload of an image, and that upload threw.
UploadFailedAt(i, j) ==
    /\ calls[i][j].kind \in UploadKinds
    /\ Settled(calls[i][j])
    /\ OutcomeOf(i, j).threw

\* C1: once the upload of the k-th image has failed, the invocation makes
\* no draft-creation call and starts no upload for the images k+1..n.
C1_FailFast ==
    \A i \in Invs : \A j \in 1..Len(calls[i]) :
        UploadFailedAt(i, j) =>
            /\ CallsOfKind(i, "draft") = <<>>
            /\ \A m \in (j + 1)..Len(calls[i]) : calls[i][m].kind \notin UploadKinds
            /\ ImageOf(i, Len(calls[i])) = ImageOf(i, j)

\* The first of two images failed at the platform and the invocation is over.
C1_Witness ==
    \E i \in Invs : \E j \in 1..Len(calls[i]) :
        /\ UploadFailedAt(i, j)
        /\ calls[i][j].kind = "upload"
        /\ ImageOf(i, j) = 1
        /\ Len(Images(i)) = 2
        /\ pc[i] = "done"


\* C2: whenever publish_image_message submits a draft, image_list has as
\* many entries as images, and its k-th image_media_id is the media_id the
\* platform returned for the upload of images[k]: order kept, nothing
\* dropped, duplicated or reordered.
C2_OrderPreserved ==
    \A i \in Invs : \A j \in 1..Len(calls[i]) :
        calls[i][j].kind = "draft" =>
            LET list == calls[i][j].arg.image_list
                ups == CallsOfKind(i, "upload")
            IN  /\ Len(list) = Len(Images(i))
                /\ Len(ups) = Len(Images(i))
                /\ \A k \in 1..Len(list) :
                      /\ ups[k].arg = PathText(Images(i)[k])
                      /\ ups[k].resp.data.media_id = Some(list[k].image_media_id)

\* A draft was submitted for two different images.
C2_Witness ==
    \E i \in Invs :
        /\ pc[i] = "draft"
        /\ Len(Images(i)) = 2
        /\ Images(i)[1] # Images(i)[2]
        /\ Len(calls[i][Len(calls[i])].arg.image_list) = 2

\* What the caller sent, before the handler coerces it.
TextMissing(o) == o = Absent \/ o = Some(Lit(""))
ImagesMissing(o) == o = Absent \/ o = Some(<<>>)
RawArgsInvalid(i) ==
    \/ TextMissing(request[i].arguments.title)
    \/ TextMissing(request[i].arguments.content)
    \/ ImagesMissing(request[i].arguments.images)
EnvUnset ==
    TextMissing(env.WECHAT_APP_ID) \/ TextMissing(env.WECHAT_APP_SECRET)

\* C3: a publish_image_message invocation whose title or content is
\* missing or empty, or whose images list is missing or empty, ends in
\* failure and has made no network call.
C3_InvalidArgsNoNetwork ==
    \A i \in Invs :
        (IsImageMessage(i) /\ RawArgsInvalid(i)) =>
            /\ NetworkCalls(i) = <<>>
            /\ pc[i] \in {"received", "done"}
            /\ pc[i] = "done" => result[i].status = "error"

\* images: [] with title, content and both variables set has failed.
C3_Witness ==
    \E i \in Invs :
        /\ IsImageMessage(i)
        /\ ~EnvUnset
        /\ request[i].arguments.images = Some(<<>>)
        /\ ~TextMissing(request[i].arguments.title)
        /\ ~TextMissing(request[i].arguments.content)
        /\ pc[i] = "done"
        /\ result[i] = Failure(<<MsgValidation>>)

\* C4: with WECHAT_APP_ID or WECHAT_APP_SECRET unset or empty,
\* publish_image_message fails with the configuration error and makes no
\* network call, whatever its arguments.
C4_ConfigGate ==
    \A i \in Invs :
        (IsImageMessage(i) /\ EnvUnset) =>
            /\ NetworkCalls(i) = <<>>
            /\ pc[i] \in {"received", "done"}
            /\ pc[i] = "done" => result[i] = Failure(<<MsgConfig>>)

\* Only WECHAT_APP_ID is unset, the arguments are valid, the call has failed.
C4_Witness ==
    \E i \in Invs :
        /\ IsImageMessage(i)
        /\ env.WECHAT_APP_ID = Absent
        /\ ~TextMissing(env.WECHAT_APP_SECRET)
        /\ ~RawArgsInvalid(i)
        /\ pc[i] = "done"
        /\ result[i] = Failure(<<MsgConfig>>)

\* C5 as claimed: arguments are validated before the environment is read,
\* so invalid arguments fail with the validation error also when the
\* variables are unset.
C5_ValidationFirst ==
    \A i \in Invs :
        (IsImageMessage(i) /\ RawArgsInvalid(i) /\ pc[i] = "done") =>
            result[i] = Failure(<<MsgValidation>>)

\* C5, amended: the environment is read before the arguments are
\* validated.  The configuration error is produced exactly when a variable
\* is unset, whatever the arguments, and the validation error exactly when
\* both variables are set and the arguments are invalid.
C5_ConfigFirst ==
    \A i \in Invs :
        (IsImageMessage(i) /\ pc[i] = "done") =>
            /\ result[i] = Failure(<<MsgConfig>>) <=> EnvUnset
            /\ result[i] = Failure(<<MsgValidation>>) <=> (~EnvUnset /\ RawArgsInvalid(i))

\* Invalid arguments under an unset variable have failed.
C5_Witness ==
    \E i \in Invs :
        /\ IsImageMessage(i)
        /\ EnvUnset
        /\ RawArgsInvalid(i)
        /\ pc[i] = "done"
        /\ result[i] = Failure(<<MsgConfig>>)


\* An errcode field that signals an error: present and not 0.
ErrorCode(data) == data.errcode # Absent /\ data.errcode[1] # 0

\* C6: when the token response carries an error code, the invocation ends
\* in a failure whose message contains the platform's errmsg, or the
\* errcode when there is no errmsg, and makes no upload and no draft call.
C6_TokenErrorSurfaces ==
    \A i \in Invs :
        (/\ IsImageMessage(i)
         /\ Len(calls[i]) >= 1
         /\ calls[i][1].kind = "token"
         /\ calls[i][1].resp.kind = "http"
         /\ ErrorCode(calls[i][1].resp.data)) =>
            LET data == calls[i][1].resp.data
            IN  /\ pc[i] = "done"
                /\ result[i].status = "error"
                /\ data.errmsg # Absent => data.errmsg[1] \in Parts(result[i].message)
                /\ data.errmsg = Absent =>
                       NumText(data.errcode[1]) \in Parts(result[i].message)
                /\ Len(calls[i]) = 1

\* errcode 40001 came with a token and without an errmsg, and the call failed.
C6_Witness ==
    \E i \in Invs :
        /\ Len(calls[i]) = 1
        /\ calls[i][1].kind = "token"
        /\ calls[i][1].resp.data.errcode = Some(40001)
        /\ calls[i][1].resp.data.errmsg = Absent
        /\ calls[i][1].resp.data.access_token # Absent
        /\ result[i] = Failure(<<MsgTokenFailed, Lit("40001")>>)

\* The text by which a message would name the position of an image.
PositionText(k) == <<"position", k>>

\* C7 as claimed, for the failures the platform signals (Scenario B): the
\* failure reported for the upload of image k names image k, by its
\* position or by its path.
C7_NamesTheImage ==
    \A i \in Invs : \A j \in 1..Len(calls[i]) :
        (/\ UploadFailedAt(i, j)
         /\ calls[i][j].kind = "upload"
         /\ calls[i][j].resp.kind = "http"
         /\ pc[i] = "done") =>
            \/ PathText(Images(i)[ImageOf(i, j)]) \in Parts(result[i].message)
            \/ PositionText(ImageOf(i, j)) \in Parts(result[i].message)

\* C7, amended: the failure reported for the upload of image k is the
\* error of the failing step, unchanged.  A rejected promise is reported
\* with its own text; a failed download with the fixed text and the path
\* of the image; a rejection by the platform with the fixed text and the
\* platform's status, body, errmsg or errcode only, so it names no image.
C7_StepErrorUnchanged ==
    \A i \in Invs : \A j \in 1..Len(calls[i]) :
        UploadFailedAt(i, j) =>
            LET c == calls[i][j]
                msg == result[i].message
                path == PathText(Images(i)[ImageOf(i, j)])
            IN  /\ pc[i] = "done"
                /\ result[i].status = "error"
                /\ c.resp.kind = "threw" => msg = <<c.resp.text>>
                /\ (c.kind = "download" /\ c.resp.kind = "http") =>
                       msg = <<MsgDownloadFailed, path>>
                /\ (c.kind = "upload" /\ c.resp.kind = "http") =>
                       /\ msg[1] \in {MsgUploadFailed, MsgUploadMissing}
                       /\ Parts(msg) \subseteq
                              {MsgUploadFailed, MsgUploadMissing, MsgSpace,
                               NumText(c.resp.status), c.resp.text}
                              \cup Parts(c.resp.data.errmsg)
                              \cup {NumText(c.resp.data.errcode[k]) :
                                       k \in 1..Len(c.resp.data.errcode)}
                       /\ path \notin Parts(msg)
                       /\ PositionText(ImageOf(i, j)) \notin Parts(msg)

\* Scenario B: the platform answered the upload of image 2 of 2 with
\* errcode 45009, and the call has failed.
C7_Witness ==
    \E i \in Invs : \E j \in 1..Len(calls[i]) :
        /\ UploadFailedAt(i, j)
        /\ calls[i][j].kind = "upload"
        /\ calls[i][j].resp.data.errcode = Some(45009)
        /\ ImageOf(i, j) = 2
        /\ Len(Images(i)) = 2
        /\ pc[i] = "done"

\* The answers the three endpoints signal success with.
NoErrorCode(data) == data.errcode \in {Absent, Some(0)}
TokenSucceeded(c) ==
    c.resp.kind = "http" /\ NoErrorCode(c.resp.data) /\ c.resp.data.access_token # Absent
UploadSucceeded(c) ==
    /\ c.resp.kind = "http" /\ c.resp.ok
    /\ NoErrorCode(c.resp.data) /\ c.resp.data.media_id \notin {Absent, Some(Lit(""))}
DraftSucceeded(c) ==
    c.resp.kind = "http" /\ NoErrorCode(c.resp.data) /\ c.resp.data.media_id # Absent

\* The outcome of a publish_image_message invocation, in one state.
C8_Outcome ==
    \A i \in Invs :
        IsImageMessage(i) =>
            LET tokens == CallsOfKind(i, "token")
                ups == CallsOfKind(i, "upload")
                drafts == CallsOfKind(i, "draft")
            IN  /\ result[i].status \in {"pending", "success", "error"}
                /\ result[i].status # "pending" <=> pc[i] = "done"
                /\ result[i].status = "error" =>
                       result[i].content = <<>> /\ result[i].message # <<>>
                /\ result[i].status = "success" =>
                       /\ result[i].message = <<>>
                       /\ Len(result[i].content) = 1
                       /\ result[i].content[1].type = "text"
                       /\ Len(tokens) = 1 /\ TokenSucceeded(tokens[1])
                       /\ Len(ups) = Len(Images(i))
                       /\ \A k \in 1..Len(ups) : UploadSucceeded(ups[k])
                       /\ Len(drafts) = 1 /\ DraftSucceeded(drafts[1])
                       /\ result[i].content[1].text =
                              <<MsgImagePublished, drafts[1].resp.data.media_id[1]>>
                       /\ \A k \in 1..Len(ups) :
                              ups[k].resp.data.media_id[1] \notin
                                  Parts(result[i].content[1].text)

\* C8: every publish_image_message invocation produces exactly one
\* outcome, one success with one text block that names the media_id the
\* draft call returned (never an image's), or one failure; it succeeds
\* only if the token request, all n uploads and the draft call succeeded;
\* and an outcome, once produced, is never replaced.
C8_OneOutcome ==
    /\ []C8_Outcome
    /\ [][\A i \in Invs : result[i].status # "pending" => result'[i] = result[i]]_vars

\* Two images were uploaded and the draft was created.
C8_Witness ==
    \E i \in Invs :
        /\ IsImageMessage(i)
        /\ Len(Images(i)) = 2
        /\ pc[i] = "done"
        /\ result[i].status = "success"


\* What invocation i got from the platform and what it sent to it.
TokensReturned(i) ==
    {calls[i][j].resp.data.access_token[1] :
        j \in {m \in 1..Len(calls[i]) :
                 /\ calls[i][m].kind = "token"
                 /\ calls[i][m].resp.data.access_token # Absent}}
TokensUsed(i) ==
    {calls[i][j].token[1] : j \in {m \in 1..Len(calls[i]) : calls[i][m].token # Absent}}
MediaIdsReturned(i) ==
    {calls[i][j].resp.data.media_id[1] :
        j \in {m \in 1..Len(calls[i]) :
                 /\ calls[i][m].kind \in {"upload", "draft"}
                 /\ calls[i][m].resp.data.media_id # Absent}}
MediaIdsSent(i) ==
    UNION {{calls[i][j].arg.image_list[k].image_media_id :
               k \in 1..Len(calls[i][j].arg.image_list)} :
           j \in {m \in 1..Len(calls[i]) : calls[i][m].kind = "draft"}}
IdsInResult(i) ==
    UNION {Parts(result[i].content[k].text) \ {MsgImagePublished} :
           k \in 1..Len(result[i].content)}

\* C9: under every interleaving of publish_image_message invocations, the
\* draft payload of an invocation holds the media_ids of its own uploads in
\* its own input order, with its own title and content, every call uses
\* its own token, and no token or media_id of one invocation appears in a
\* call or in the result of another.
C9_Isolation ==
    \A i \in Invs :
        LET tokens == CallsOfKind(i, "token")
            ups == CallsOfKind(i, "upload")
            drafts == CallsOfKind(i, "draft")
        IN  /\ \A k \in 1..Len(ups) :
                  /\ ups[k].arg = PathText(Images(i)[k])
                  /\ ups[k].token = tokens[1].resp.data.access_token
            /\ \A d \in 1..Len(drafts) :
                  /\ drafts[d].token = tokens[1].resp.data.access_token
                  /\ drafts[d].arg.title = Title(i)
                  /\ drafts[d].arg.content = Content(i)
                  /\ drafts[d].arg.image_list =
                         [k \in 1..Len(Images(i)) |->
                             [image_media_id |-> ups[k].resp.data.media_id[1]]]
            /\ IdsInResult(i) \subseteq MediaIdsReturned(i)
            /\ \A j \in Invs \ {i} :
                  /\ TokensUsed(i) \cap TokensReturned(j) = {}
                  /\ MediaIdsSent(i) \cap MediaIdsReturned(j) = {}
                  /\ IdsInResult(i) \cap MediaIdsReturned(j) = {}

\* Two invocations have uploaded their images in turns and both submitted
\* their draft.
C9_Witness ==
    /\ pc[1] = "draft" /\ pc[2] = "draft"
    /\ Len(Images(1)) = MaxImages /\ Len(Images(2)) = MaxImages
    /\ calls[1][Len(calls[1])].arg.image_list # calls[2][Len(calls[2])].arg.image_list

\* C10: an invocation that passes the configuration and the validation
\* check issues exactly one token request, as its first call; that request
\* has returned before the first upload starts; every upload and the draft
\* call carry the token it returned; and no token returned to another
\* invocation is used.
C10_OneFreshToken ==
    \A i \in Invs :
        (IsImageMessage(i) /\ pc[i] # "received") =>
            IF EnvUnset \/ RawArgsInvalid(i)
            THEN CallsOfKind(i, "token") = <<>>
            ELSE /\ Len(CallsOfKind(i, "token")) = 1
                 /\ calls[i][1].kind = "token"
                 /\ Len(calls[i]) >= 2 => TokenSucceeded(calls[i][1])
                 /\ \A j \in 2..Len(calls[i]) :
                       calls[i][j].kind \in {"upload", "draft"} =>
                           calls[i][j].token = calls[i][1].resp.data.access_token
                 /\ \A j \in Invs \ {i} : TokensUsed(i) \cap TokensReturned(j) = {}

\* Two invocations have succeeded, each with the token of its own request.
C10_Witness ==
    /\ pc[1] = "done" /\ result[1].status = "success"
    /\ pc[2] = "done" /\ result[2].status = "success"
    /\ TokensReturned(1) # TokensReturned(2)
    /\ TokensUsed(1) = TokensReturned(1)
    /\ TokensUsed(2) = TokensReturned(2)

\* ------------------------------------------------------------------ C11
IsUnknownTool(i) == pc[i] # "absent" /\ request[i].name \notin ToolNames

\* C11: an invocation whose tool name is none of publish_article,
\* list_themes and publish_image_message makes no call to a collaborator or
\* to a network endpoint, whatever its arguments and its environment, and
\* it ends with the unknown-tool error.
C11_UnknownTool ==
    \A i \in Invs :
        IsUnknownTool(i) =>
            /\ calls[i] = <<>>
            /\ platform = [tokens |-> 0, materials |-> {}, drafts |-> {}]
            /\ pc[i] \in {"received", "done"}
            /\ pc[i] = "done" => result[i] = Failure(<<MsgUnknownTool>>)

\* An unknown name with the arguments and the environment of a publishable
\* image message has ended.
C11_Witness ==
    \E i \in Invs :
        /\ IsUnknownTool(i)
        /\ ~RawArgsInvalid(i)
        /\ ~EnvUnset
        /\ pc[i] = "done"
        /\ result[i] = Failure(<<MsgUnknownTool>>)

\* ------------------------------------------------------------------ C12
IsArticle(i) == request[i].name = "publish_article"
ArticleContentMissing(i) == TextMissing(request[i].arguments.content)

\* C12: a publish_article invocation whose content argument is missing or
\* empty calls neither the content formatter nor the draft publisher, and
\* it ends with a validation error.
C12_ArticleValidated ==
    \A i \in Invs :
        (IsArticle(i) /\ ArticleContentMissing(i)) =>
            /\ CallsOfKind(i, "getGzhContent") = <<>>
            /\ CallsOfKind(i, "publishToDraft") = <<>>
            /\ pc[i] = "done" => result[i].status = "error"

\* ------------------------------------------------------------------ C13
\* Call j of invocation i is the POST of a material that the platform
\* answered with a status and a body.
UploadAnswered(i, j) ==
    /\ calls[i][j].kind = "upload"
    /\ calls[i][j].resp.kind = "http"
\* uploadPermanentMaterial returned to the loop, which went on to its next
\* call with the id pushed; or it threw and the invocation ended there.
UploadReturned(i, j) ==
    /\ j < Len(calls[i])
    /\ Len(imageMediaIds[i]) >= ImageOf(i, j)
    /\ Some(imageMediaIds[i][ImageOf(i, j)]) = calls[i][j].resp.data.media_id
UploadThrew(i, j, msg) ==
    /\ j = Len(calls[i])
    /\ pc[i] = "done"
    /\ result[i] = Failure(msg)
HasMediaId(data) == data.media_id \notin {Absent, Some(Lit(""))}
ErrorShown(data) ==
    IF data.errmsg \notin {Absent, Some(Lit(""))}
    THEN data.errmsg[1] ELSE NumText(data.errcode[1])

\* C13 as claimed: the upload returns a media_id exactly when the answer
\* has a success status, no errcode field at all and a media_id.
C13_AnyErrcodeFails ==
    \A i \in Invs : \A j \in 1..Len(calls[i]) :
        UploadAnswered(i, j) =>
            LET r == calls[i][j].resp
            IN  UploadReturned(i, j) <=>
                    (r.ok /\ r.data.errcode = Absent /\ HasMediaId(r.data))

\* C13: the upload returns the media_id exactly when the answer has a
\* success status, no errcode other than 0 and a non-empty media_id.  It
\* fails with the status and the raw body when the status is not a
\* success, whatever the body holds; else with the platform's errmsg or
\* errcode when the errcode is not 0; else with the missing-media_id error.
C13_UploadOutcome ==
    \A i \in Invs : \A j \in 1..Len(calls[i]) :
        UploadAnswered(i, j) =>
            LET r == calls[i][j].resp
            IN  /\ UploadReturned(i, j) <=>
                       (r.ok /\ r.data.errcode \in {Absent, Some(0)} /\ HasMediaId(r.data))
                /\ ~r.ok =>
                       UploadThrew(i, j, <<MsgUploadFailed, NumText(r.status), MsgSpace, r.text>>)
                /\ (r.ok /\ r.data.errcode \notin {Absent, Some(0)}) =>
                       UploadThrew(i, j, <<MsgUploadFailed, ErrorShown(r.data)>>)
                /\ (r.ok /\ r.data.errcode \in {Absent, Some(0)} /\ ~HasMediaId(r.data)) =>
                       UploadThrew(i, j, <<MsgUploadMissing>>)

\* The platform answered an upload with errcode 0 and a media_id, and the
\* loop went on with that id.
C13_Witness ==
    \E i \in Invs : \E j \in 1..Len(calls[i]) :
        /\ UploadAnswered(i, j)
        /\ calls[i][j].resp.ok
        /\ calls[i][j].resp.data.errcode = Some(0)
        /\ HasMediaId(calls[i][j].resp.data)
        /\ UploadReturned(i, j)

\* ------------------------------------------------------------------ C14
\* C14: whenever the draft endpoint answers with a non-success HTTP status,
\* the invocation ends in a failure, whatever the body of the answer holds.
C14_DraftStatusChecked ==
    \A i \in Invs : \A j \in 1..Len(calls[i]) :
        (/\ calls[i][j].kind = "draft"
         /\ calls[i][j].resp.kind = "http"
         /\ ~calls[i][j].resp.ok) =>
            /\ pc[i] = "done"
            /\ result[i].status = "error"

\* ------------------------------------------------------------------ C15
\* s begins with "http://" or with "https://", character by character.
BeginsWithHttp(s) ==
    \/ /\ Len(s) >= 7
       /\ s[1] = "h" /\ s[2] = "t" /\ s[3] = "t" /\ s[4] = "p"
       /\ s[5] = ":" /\ s[6] = "/" /\ s[7] = "/"
    \/ /\ Len(s) >= 8
       /\ s[1] = "h" /\ s[2] = "t" /\ s[3] = "t" /\ s[4] = "p" /\ s[5] = "s"
       /\ s[6] = ":" /\ s[7] = "/" /\ s[8] = "/"
\* The calls invocation i made for the image at position p.
CallsForImage(i, p) ==
    {j \in 1..Len(calls[i]) : calls[i][j].kind \in UploadKinds /\ ImageOf(i, j) = p}

\* C15: the upload of an image s fetches s exactly when s begins with
\* "http://" or "https://"; for every other s, the empty string and the
\* other-case and other-scheme prefixes included, it reads the file at
\* path s and fetches nothing.
C15_Classification ==
    \A i \in Invs :
        IsImageMessage(i) =>
            \A p \in 1..Len(Images(i)) :
                LET s == Images(i)[p]
                    js == CallsForImage(i, p)
                    fetches == {j \in js : calls[i][j].kind = "download"}
                    reads == {j \in js : calls[i][j].kind = "readFile"}
                IN  /\ \A j \in fetches \cup reads : calls[i][j].arg = PathText(s)
                    /\ BeginsWithHttp(s) => (reads = {} /\ (js # {} => fetches # {}))
                    /\ ~BeginsWithHttp(s) => (fetches = {} /\ (js # {} => reads # {}))

\* The empty string, the prefix cut short or the scheme in upper case was
\* the only image, and it was read as a local file.
C15_Witness ==
    \E i \in Invs : \E j \in 1..Len(calls[i]) :
        /\ IsImageMessage(i)
        /\ Images(i) \in {<<UpperPath>>, <<EmptyPath>>, <<CutPath>>}
        /\ calls[i][j].kind = "readFile"
        /\ calls[i][j].arg = PathText(Images(i)[1])
        /\ Settled(calls[i][j])

\* ------------------------------------------------------------------ C16
\* The pieces of the text returned to the caller, of a success or a failure.
ResultParts(i) ==
    Parts(result[i].message) \cup
    UNION {Parts(result[i].content[k].text) : k \in 1..Len(result[i].content)}
\* Every access token issued or in use, and the application secret.
AccessTokens ==
    UNION {TokensReturned(k) \cup TokensUsed(k) \cup ({accessToken[k]} \ {Lit("")}) :
           k \in Invs}
AppSecrets ==
    IF env.WECHAT_APP_SECRET \in {Absent, Some(Lit(""))} THEN {}
    ELSE {env.WECHAT_APP_SECRET[1]}
\* The texts the code itself writes, the paths the caller gave, and what
\* the answers to the calls of invocation i held: status, body (or the
\* rejection text of a request that got no answer), errmsg, errcode,
\* media_id.
FixedTexts ==
    {MsgConfig, MsgValidation, MsgTokenFailed, MsgTokenMissing, MsgDownloadFailed,
     MsgUploadFailed, MsgUploadMissing, MsgDraftFailed, MsgDraftMissing,
     MsgImagePublished, MsgSpace}
CallerTexts(i) == {PathText(Images(i)[p]) : p \in 1..Len(Images(i))}
AnswerTexts(i) ==
    UNION {LET r == calls[i][j].resp
           IN  {r.text, NumText(r.status)}
               \cup {r.data.errmsg[k] : k \in 1..Len(r.data.errmsg)}
               \cup {NumText(r.data.errcode[k]) : k \in 1..Len(r.data.errcode)}
               \cup {r.data.media_id[k] : k \in 1..Len(r.data.media_id)} :
           j \in {m \in 1..Len(calls[i]) : Settled(calls[i][m])}}

\* C16: in every state of a publish_image_message invocation, the text
\* returned to the caller holds neither an access token nor the application
\* secret; it is made of the fixed texts of the code, the paths of the
\* request, and of the platform only status, body text, errmsg, errcode and
\* media_id.
C16_NoSecretReturned ==
    \A i \in Invs :
        IsImageMessage(i) =>
            /\ ResultParts(i) \cap (AccessTokens \cup AppSecrets) = {}
            /\ ResultParts(i) \subseteq FixedTexts \cup CallerTexts(i) \cup AnswerTexts(i)

\* An invocation that holds an access token and runs with a secret has
\* ended in a failure whose message went to the caller.
C16_Witness ==
    \E i \in Invs :
        /\ IsImageMessage(i)
        /\ pc[i] = "done"
        /\ accessToken[i] \in AccessTokens
        /\ AppSecrets # {}
        /\ result[i].status = "error"
        /\ ResultParts(i) # {}

\* ------------------------------------------------------------------ C17
\* The calls of invocation i of one kind, as positions in its history.
CallsAt(i, kinds) == {j \in 1..Len(calls[i]) : calls[i][j].kind \in kinds}
\* The call failed: the request was rejected, or its answer is one the
\* helper that awaited it throws on.
CallFailed(i, j) == Settled(calls[i][j]) /\ OutcomeOf(i, j).threw

\* C17: a publish_image_message invocation calls the token endpoint at most
\* once and the draft endpoint at most once; the m-th source it opens and
\* the m-th material it posts are those of images[m], so that no position
\* of images is uploaded twice; and a failed call is the last call of the
\* invocation.
C17_NoRetry ==
    \A i \in Invs :
        IsImageMessage(i) =>
            LET opened == SelectSeq(calls[i], LAMBDA c : c.kind \in StartKinds)
                posted == CallsOfKind(i, "upload")
            IN  /\ Cardinality(CallsAt(i, {"token"})) <= 1
                /\ Cardinality(CallsAt(i, {"draft"})) <= 1
                /\ Len(opened) <= Len(Images(i))
                /\ Len(posted) <= Len(opened)
                /\ \A m \in 1..Len(opened) : opened[m].arg = PathText(Images(i)[m])
                /\ \A j \in CallsAt(i, {"upload"}) :
                       Cardinality({m \in CallsAt(i, {"upload"}) :
                                       ImageOf(i, m) = ImageOf(i, j)}) = 1
                /\ \A j \in 1..Len(calls[i]) :
                       CallFailed(i, j) => (j = Len(calls[i]) /\ pc[i] = "done")

\* The upload of the second image failed after the token and the first
\* upload succeeded: the history ends there, with one call per step taken.
C17_Witness ==
    \E i \in Invs :
        /\ IsImageMessage(i)
        /\ Len(Images(i)) >= 2
        /\ Cardinality(CallsAt(i, {"token"})) = 1
        /\ Cardinality(CallsAt(i, {"upload"})) = 2
        /\ CallFailed(i, Len(calls[i]))
        /\ calls[i][Len(calls[i])].kind = "upload"
        /\ pc[i] = "done"

\* ------------------------------------------------------------------ C18
HandlerKinds == {"token", "download", "readFile", "upload", "draft"}
\* The uploads of invocation i that the platform answered with a success.
UploadedBy(i) == {j \in CallsAt(i, {"upload"}) : UploadSucceeded(calls[i][j])}
MaterialIdsOf(i) == {calls[i][j].resp.data.media_id[1] : j \in UploadedBy(i)}
\* The invocation ended in a failure of upload k or of the draft: k - 1.
FailedAfter(i) ==
    LET last == calls[i][Len(calls[i])]
    IN  IF last.kind = "draft" THEN Len(Images(i)) ELSE ImageOf(i, Len(calls[i])) - 1
FailedInFlight(i) ==
    /\ IsImageMessage(i)
    /\ pc[i] = "done"
    /\ result[i].status = "error"
    /\ Len(calls[i]) >= 1
    /\ calls[i][Len(calls[i])].kind \in UploadKinds \cup {"draft"}

C18_Kept ==
    /\ \A i \in Invs :
           FailedInFlight(i) =>
               /\ Cardinality(UploadedBy(i)) = FailedAfter(i)
               /\ Cardinality(MaterialIdsOf(i)) = FailedAfter(i)
               /\ \A j \in 1..Len(calls[i]) : calls[i][j].kind \in HandlerKinds
               /\ {m.media_id : m \in {x \in platform.materials :
                                          x.token = Some(accessToken[i])}}
                      = MaterialIdsOf(i)
    /\ {m.media_id : m \in platform.materials} = UNION {MaterialIdsOf(i) : i \in Invs}

\* C18: when upload k or the draft submission of an invocation has failed,
\* the invocation has made no call other than its token, source, upload and
\* draft calls, and the platform holds, beside the materials of the other
\* invocations, exactly the k-1 materials that invocation uploaded; no
\* material is ever removed from the platform.
C18_NoRollback ==
    /\ []C18_Kept
    /\ [][platform.materials \subseteq platform'.materials]_vars

\* The second upload of an invocation failed after its first succeeded, and
\* the material of the first is on the platform.
C18_Witness ==
    \E i \in Invs :
        /\ FailedInFlight(i)
        /\ calls[i][Len(calls[i])].kind = "upload"
        /\ FailedAfter(i) = 1
        /\ \E m \in platform.materials :
               /\ m.token = Some(accessToken[i])
               /\ m.media_id = imageMediaIds[i][1]

\* ------------------------------------------------------------------ C19
\* The fetch of a remote source was answered without success or without a body.
DownloadRefused(c) ==
    /\ c.kind = "download"
    /\ c.resp.kind = "http"
    /\ (~c.resp.ok \/ ~c.resp.body)

\* C19: for each image of an invocation, the upload makes at most one fetch
\* and at most one POST to the material endpoint, the fetch first; a source
\* that is not a URL is never fetched; and when the fetch is answered
\* without success or without a body, nothing is posted for that image and
\* the invocation ends with the download error naming the URL.
C19_ReadThenWrite ==
    \A i \in Invs :
        IsImageMessage(i) =>
            \A p \in 1..Len(Images(i)) :
                LET s == Images(i)[p]
                    js == CallsForImage(i, p)
                    fetches == {j \in js : calls[i][j].kind = "download"}
                    posts == {j \in js : calls[i][j].kind = "upload"}
                IN  /\ Cardinality(fetches) <= 1
                    /\ Cardinality(posts) <= 1
                    /\ ~BeginsWithHttp(s) => fetches = {}
                    /\ \A f \in fetches : \A w \in posts : f < w
                    /\ \A f \in fetches :
                           DownloadRefused(calls[i][f]) =>
                               /\ posts = {}
                               /\ pc[i] = "done"
                               /\ result[i] = Failure(<<MsgDownloadFailed, PathText(s)>>)

\* After the first image was posted, the fetch of the second was answered
\* with a success status and no body, and the invocation has ended.
C19_Witness ==
    \E i \in Invs : \E j \in 1..Len(calls[i]) :
        /\ IsImageMessage(i)
        /\ DownloadRefused(calls[i][j])
        /\ calls[i][j].resp.ok
        /\ ImageOf(i, j) = 2
        /\ CallsAt(i, {"upload"}) # {}
        /\ pc[i] = "done"

\* ------------------------------------------------------------------ C20
\* The state of invocation i in the life cycle Received -> Validated ->
\* Executing(step) -> Succeeded | Failed.  Validated is passed within the
\* step that leaves Received: the guards and the first outbound call are
\* one stretch of code without an await.
AwaitPoints == {"token", "download", "read", "upload", "draft", "format", "publish"}
Phase(i) ==
    CASE pc[i] = "received" -> "Received"
      [] pc[i] \in AwaitPoints -> "Executing"
      [] pc[i] = "done" /\ result[i].status = "success" -> "Succeeded"
      [] pc[i] = "done" /\ result[i].status = "error" -> "Failed"
      [] OTHER -> "None"
Rank(phase) ==
    CASE phase = "Received" -> 0
      [] phase = "Executing" -> 1
      [] phase \in {"Succeeded", "Failed"} -> 2
      [] OTHER -> 3
Terminal(i) == Phase(i) \in {"Succeeded", "Failed"}
\* The iterations of the upload loop invocation i has begun.
Iterations(i) == Cardinality(CallsAt(i, StartKinds))

C20_InLifecycle ==
    \A i \in Invs :
        pc[i] # "absent" =>
            /\ Phase(i) \in {"Received", "Executing", "Succeeded", "Failed"}
            /\ result[i].status = "pending" <=> ~Terminal(i)
            /\ IsImageMessage(i) =>
                   /\ Iterations(i) <= Len(Images(i))
                   /\ imageIdx[i] = Iterations(i)
C20_Forward ==
    \A i \in Invs :
        /\ Rank(Phase(i))' >= Rank(Phase(i))
        /\ Terminal(i) =>
               /\ pc'[i] = pc[i]
               /\ result'[i] = result[i]
               /\ calls'[i] = calls[i]
        /\ imageIdx'[i] \in {imageIdx[i], imageIdx[i] + 1}

\* C20: every invocation is Received, Executing, Succeeded or Failed, moves
\* only forward in that order and never leaves Succeeded or Failed; the
\* upload loop of publish_image_message begins at most n iterations for n
\* images; and when every outbound call is answered or rejected, every
\* invocation reaches Succeeded or Failed.
C20_Lifecycle ==
    /\ []C20_InLifecycle
    /\ [][C20_Forward]_vars
    /\ \A i \in Invs : (pc[i] = "received") ~> Terminal(i)

\* An invocation with as many images as the bound allows has run the loop
\* once per image and has succeeded.
C20_Witness ==
    \E i \in Invs :
        /\ IsImageMessage(i)
        /\ Len(Images(i)) = MaxImages
        /\ Iterations(i) = MaxImages
        /\ Phase(i) = "Succeeded"

====
